---- MODULE Spec2Model ----
(***************************************************************************)
(* Model of account/email_manager.py: EmailManager, the token-based email  *)
(* verification flow (token issuance, uid encoding, templated email        *)
(* dispatch, and the two transactional flows built from them).             *)
(*                                                                         *)
(* One request is handled at a time.  An invocation is a sequence of       *)
(* steps, one per statement of the method that touches a collaborator      *)
(* (the Token table, the environment, the template loader, the mail        *)
(* transport, the logger); pc is the position inside the invocation.       *)
(* Durations and timestamps are whole seconds.  Strings are TLC strings,   *)
(* except the result of _encode_uid, which is the sequence of its          *)
(* characters until it is interpolated into a URL.  The 'year' entry of    *)
(* the template context is left out: no step of the class reads it.        *)
(***************************************************************************)
EXTENDS Integers, Sequences, FiniteSets, TLC

(* ---------------------------- bounds ---------------------------------- *)
\* number of top-level invocations in one behaviour
MaxCalls == 2
\* the clock runs from 0 to MaxTime
MaxTime == 2
\* identifiers 0 .. MaxUid, and their multiples of UidStride, are encoded
MaxUid == 60
\* the multiples reach four- and five-digit identifiers
UidStride == 173
UidDomain == (0 .. MaxUid) \cup { n * UidStride : n \in 0 .. MaxUid }

(* ------------------------ program constants --------------------------- *)
\* EmailManager.__init__: self.token_expiry = timedelta(minutes=15)
token_expiry == 900
\* send_password_reset_email: expiry=timedelta(hours=1)
reset_expiry == 3600

\* EmailManager.__init__: self.from_email = settings.DEFAULT_FROM_EMAIL
from_email == "noreply@codegradr.test"

\* the users of the scenarios; pk is the id of a Django model
Users == { [id |-> 42, email |-> "a@x.com"], [id |-> 7, email |-> "b@x.com"] }
NoUser == [id |-> 0, email |-> ""]

\* values get_random_string(length=64) may return
Keys == {"k1", "k2"}

\* os.environ may or may not define BASE_URL
Unset == "<unset>"
BaseUrls == {"https://app.test", Unset}

\* Optional[timedelta]: None, or a duration in seconds
NoExpiry == [given |-> FALSE, secs |-> 0]
Given(s) == [given |-> TRUE, secs |-> s]
Expiries == {NoExpiry, Given(0), Given(60), Given(reset_expiry)}

\* templates shipped with the application, and one that is not
Templates == {"email_confirmation.html", "password_reset.html"}
TemplatePaths == Templates \cup {"missing.html"}

(* ------------------------- _encode_uid -------------------------------- *)
\* the URL-safe base64 alphabet of base64.urlsafe_b64encode
B64Alphabet ==
  << "A","B","C","D","E","F","G","H","I","J","K","L","M","N","O","P",
     "Q","R","S","T","U","V","W","X","Y","Z","a","b","c","d","e","f",
     "g","h","i","j","k","l","m","n","o","p","q","r","s","t","u","v",
     "w","x","y","z","0","1","2","3","4","5","6","7","8","9","-","_" >>

\* str(user_id).encode(): the ASCII bytes of the decimal digits of n >= 0
RECURSIVE StrBytes(_)
StrBytes(n) ==
  IF n < 10 THEN << 48 + n >>
  ELSE Append(StrBytes(n \div 10), 48 + (n % 10))

\* base64 of a byte sequence: 3 bytes to 4 characters, "=" padding
RECURSIVE B64Encode(_)
B64Encode(bs) ==
  IF Len(bs) = 0 THEN << >>
  ELSE IF Len(bs) = 1 THEN
    << B64Alphabet[(bs[1] \div 4) + 1],
       B64Alphabet[((bs[1] % 4) * 16) + 1], "=", "=" >>
  ELSE IF Len(bs) = 2 THEN
    << B64Alphabet[(bs[1] \div 4) + 1],
       B64Alphabet[((bs[1] % 4) * 16 + (bs[2] \div 16)) + 1],
       B64Alphabet[((bs[2] % 16) * 4) + 1], "=" >>
  ELSE
    << B64Alphabet[(bs[1] \div 4) + 1],
       B64Alphabet[((bs[1] % 4) * 16 + (bs[2] \div 16)) + 1],
       B64Alphabet[((bs[2] % 16) * 4 + (bs[3] \div 64)) + 1],
       B64Alphabet[(bs[3] % 64) + 1] >>
    \o B64Encode(SubSeq(bs, 4, Len(bs)))

NotPadding(c) == c # "="

\* a plausible slip: the "=" padding is stripped from the encoding
_encode_uid_unpadded(user_id) ==
  SelectSeq(B64Encode(StrBytes(user_id)), NotPadding)

\* base64.urlsafe_b64encode(str(user_id).encode()).decode('utf-8')
_encode_uid(user_id) == B64Encode(StrBytes(user_id))

\* the characters of s as one string, as an f-string interpolates them
RECURSIVE Join(_)
Join(s) == IF Len(s) = 0 THEN "" ELSE Head(s) \o Join(Tail(s))

(* --------- the inverse used by the confirmation handler --------------- *)
Invalid == -1

B64Index(c) ==
  IF \E i \in 1..64 : B64Alphabet[i] = c
  THEN (CHOOSE i \in 1..64 : B64Alphabet[i] = c) - 1
  ELSE Invalid

\* base64.urlsafe_b64decode of a padded character sequence: the bytes, or
\* << Invalid >> when the input is not well-formed base64
RECURSIVE B64Decode(_)
B64Decode(cs) ==
  IF Len(cs) = 0 THEN << >>
  ELSE IF Len(cs) < 4 THEN << Invalid >>
  ELSE
    LET a == B64Index(cs[1])
        b == B64Index(cs[2])
        c == B64Index(cs[3])
        d == B64Index(cs[4])
    IN  IF a = Invalid \/ b = Invalid THEN << Invalid >>
        ELSE IF cs[3] = "=" THEN
          IF cs[4] = "=" /\ Len(cs) = 4
          THEN << a * 4 + (b \div 16) >> ELSE << Invalid >>
        ELSE IF c = Invalid THEN << Invalid >>
        ELSE IF cs[4] = "=" THEN
          IF Len(cs) = 4
          THEN << a * 4 + (b \div 16), (b % 16) * 16 + (c \div 4) >>
          ELSE << Invalid >>
        ELSE IF d = Invalid THEN << Invalid >>
        ELSE << a * 4 + (b \div 16), (b % 16) * 16 + (c \div 4),
                (c % 4) * 64 + d >>
             \o B64Decode(SubSeq(cs, 5, Len(cs)))

\* int(bytes.decode()): the number written by ASCII decimal digits
RECURSIVE ParseInt(_)
ParseInt(bs) ==
  IF Len(bs) = 0 THEN Invalid
  ELSE IF \E i \in 1..Len(bs) : bs[i] < 48 \/ bs[i] > 57 THEN Invalid
  ELSE IF Len(bs) = 1 THEN bs[1] - 48
  ELSE ParseInt(SubSeq(bs, 1, Len(bs) - 1)) * 10 + (bs[Len(bs)] - 48)

decode_uid(cs) == ParseInt(B64Decode(cs))

(* ------------------------------ state --------------------------------- *)
VARIABLES
  tokens,     \* rows of the Token table, uncommitted ones included
  next_id,    \* the next automatic primary key of the Token table
  now,        \* timezone.now()
  base_url,   \* the environment's BASE_URL, or Unset
  outbox,     \* messages the mail transport has accepted, in order
  log,        \* entries written to the module logger, in order
  calls,      \* invocations started so far
  op,         \* the method invoked by the caller
  pc,         \* position inside the invocation; "idle" between invocations
  user,       \* argument user
  expiry,     \* argument expiry of generate_user_token
  template,   \* argument template_path of send_email
  to_email,   \* argument to_email of send_email
  uid,        \* local uid of send_activation_email
  token,      \* local token: the key generate_user_token returned
  url,        \* local confirmation_url / password_reset_url
  exc,        \* the exception in flight, or "none"
  result,     \* how the last invocation ended: "ok", "raised", or "running"
  savepoint,  \* the Token table when transaction.atomic was entered
  created,    \* id of the row created by this invocation, 0 if none
  rendered,   \* render_to_string has returned a body in this invocation
  attempts,   \* calls of email.send made by this invocation
  accepted,   \* calls of email.send that returned in this invocation
  uid_n,      \* first identifier handed to _encode_uid
  uid_enc,    \* its encoding, << >> before the call
  uid_m,      \* second identifier handed to _encode_uid
  uid_menc    \* its encoding, << >> before the call

frame == << op, pc, user, expiry, template, to_email, uid, token, url, exc,
            result, savepoint, created, rendered, attempts, accepted >>
uid_vars == << uid_n, uid_enc, uid_m, uid_menc >>
vars == << tokens, next_id, now, base_url, outbox, log, calls, frame,
           uid_vars >>

Flows == {"send_activation_email", "send_password_reset_email"}

(* --------------------------- data model -------------------------------- *)
\* a row of the Token table
Token(id, u, key, expires_at, created_at) ==
  [id |-> id, user |-> u.id, key |-> key, expires_at |-> expires_at,
   created_at |-> created_at]

LogEntry(level, fn, user_id, text) ==
  [level |-> level, fn |-> fn, user_id |-> user_id, text |-> text]

(* ----------------------- generate_user_token --------------------------- *)
\* expires_at=timezone.now() + (expiry or self.token_expiry): a timedelta
\* is false when it is None or the zero duration
ExpiresAt(t, e) ==
  t + (IF e.given /\ e.secs # 0 THEN e.secs ELSE token_expiry)

\* a plausible slip: issuing a token replaces the user's earlier ones
CreateTokenReplacing(store, id, u, key, e, t) ==
  { r \in store : r.user # u.id } \cup {Token(id, u, key, ExpiresAt(t, e), t)}

\* Token.objects.create(user=user, key=token, expires_at=...)
CreateToken(store, id, u, key, e, t) ==
  store \cup {Token(id, u, key, ExpiresAt(t, e), t)}

\* a plausible slip: the except clause swallows the failure
AfterTokenSwallow(ok, o) ==
  IF o = "generate_user_token" THEN "idle" ELSE "build_url"

\* where control goes after the try block of generate_user_token
AfterToken(ok, o) ==
  IF o = "generate_user_token" THEN "idle"
  ELSE IF ok THEN "build_url" ELSE "except"

(* ------------------------------ URLs ----------------------------------- *)
\* a plausible slip: the two query parameters are interchanged
ActivationUrlSwapped(base, u, t) ==
  base \o "/api/v1/account/activate/" \o "?uid=" \o t \o "&token=" \o Join(u)

\* f'{self.env("BASE_URL")}/api/v1/account/activate/?uid={uid}&token={token}'
ActivationUrl(base, u, t) ==
  base \o "/api/v1/account/activate/" \o "?uid=" \o Join(u) \o "&token=" \o t

\* f'{self.env("BASE_URL")}/api/v1/account/reset_password/?token={token}'
ResetUrl(base, t) ==
  base \o "/api/v1/account/reset_password/" \o "?token=" \o t

(* ----------------------------- send_email ------------------------------ *)
\* render_to_string(template_path, context): the body carries the template
\* and the context it was rendered with
RenderToString(tpl, u, link) == [template |-> tpl, user |-> u, url |-> link]

Subject(o) ==
  IF o = "send_activation_email" THEN "Activate Your Codegradr Account"
  ELSE IF o = "send_password_reset_email" THEN "Reset your Codegradr password"
  ELSE "subject"

\* EmailMessage(subject, body, from_email, to=[to_email]), html subtype
EmailMessage(subject, body, to) ==
  [subject |-> subject, body |-> body, from_email |-> from_email,
   to |-> << to >>, content_subtype |-> "html"]

\* a plausible slip: a failed render falls through to the send
AfterRenderFallThrough(ok, o) == "transport"

\* where control goes after render_to_string
AfterRender(ok, o) ==
  IF ok THEN "transport"
  ELSE IF o = "send_email" THEN "idle" ELSE "except"

\* a plausible slip: a failed send is tried again
AfterTransportRetry(ok, o) ==
  IF ~ok THEN "transport"
  ELSE IF o = "send_email" THEN "idle" ELSE "sent"

\* where control goes after email.send(fail_silently=False)
AfterTransport(ok, o) ==
  IF o = "send_email" THEN "idle"
  ELSE IF ok THEN "sent" ELSE "except"

(* ----------------------- transaction.atomic ---------------------------- *)
\* a plausible slip: the decorator is missing and nothing is undone
RollbackNothing(store, sp) == store

\* leaving the atomic block with an exception restores the table
Rollback(store, sp) == sp

\* a plausible slip: the flow's error entry does not name the user
FlowErrorEntryAnonymous(o, u) == LogEntry("error", o, 0, "")

\* logger.error(f"... failed for user {user.id}: {str(e)}")
FlowErrorEntry(o, u) == LogEntry("error", o, u.id, "")

(* ------------------------------ Init ----------------------------------- *)
IdleFrame ==
  /\ op = "none" /\ pc = "idle" /\ user = NoUser /\ expiry = NoExpiry
  /\ template = "" /\ to_email = "" /\ uid = << >> /\ token = "" /\ url = ""
  /\ exc = "none" /\ result = "none" /\ savepoint = {} /\ created = 0
  /\ rendered = FALSE /\ attempts = 0 /\ accepted = 0

\* email_manager = EmailManager(): an empty Token table, nothing sent
Init ==
  /\ tokens = {} /\ next_id = 1 /\ now = 0
  /\ base_url \in BaseUrls
  /\ outbox = << >> /\ log = << >> /\ calls = 0
  /\ IdleFrame
  /\ uid_n = 0 /\ uid_enc = << >> /\ uid_m = 0 /\ uid_menc = << >>

(* ----------------------------- invocations ----------------------------- *)
\* the caller invokes method o; sp is the table seen by transaction.atomic
Enter(o, u, e, tpl, to, first, sp) ==
  /\ pc = "idle"
  /\ calls < MaxCalls
  /\ calls' = calls + 1
  /\ op' = o /\ pc' = first /\ user' = u /\ expiry' = e
  /\ template' = tpl /\ to_email' = to
  /\ uid' = << >> /\ token' = "" /\ url' = "" /\ exc' = "none"
  /\ result' = "running" /\ savepoint' = sp /\ created' = 0
  /\ rendered' = FALSE /\ attempts' = 0 /\ accepted' = 0
  /\ UNCHANGED << tokens, next_id, now, base_url, outbox, log, uid_vars >>

\* generate_user_token(user, expiry) called on its own
CallGenerateUserToken ==
  \E u \in Users, e \in Expiries :
    Enter("generate_user_token", u, e, "", "", "gen_token", {})

\* send_email(template_path, context, subject, to_email) called on its own
CallSendEmail ==
  \E u \in Users, tpl \in TemplatePaths :
    Enter("send_email", u, NoExpiry, tpl, u.email, "render", {})

\* send_activation_email(user): enters transaction.atomic; the token is
\* issued with no expiry argument
CallSendActivationEmail ==
  \E u \in Users :
    Enter("send_activation_email", u, NoExpiry, "email_confirmation.html",
          u.email, "encode_uid", tokens)

\* a plausible slip: the expiry argument is not passed
ResetExpiryOmitted == NoExpiry

\* the expiry send_password_reset_email passes: timedelta(hours=1)
ResetExpiry == Given(reset_expiry)

\* send_password_reset_email(user): enters transaction.atomic; the token
\* is issued with the one-hour expiry
CallSendPasswordResetEmail ==
  \E u \in Users :
    Enter("send_password_reset_email", u, ResetExpiry,
          "password_reset.html", u.email, "gen_token", tokens)

(* -------------------------------- steps -------------------------------- *)
\* uid = self._encode_uid(user.pk)
EncodeUid ==
  /\ pc = "encode_uid"
  /\ uid' = _encode_uid(user.id)
  /\ pc' = "gen_token"
  /\ UNCHANGED << tokens, next_id, now, base_url, outbox, log, calls, op,
                  user, expiry, template, to_email, token, url, exc, result,
                  savepoint, created, rendered, attempts, accepted, uid_vars >>

\* the body of generate_user_token: the row is written, or the store
\* rejects it and the failure is logged and raised
GenerateUserToken ==
  /\ pc = "gen_token"
  /\ \E ok \in BOOLEAN, key \in Keys :
       /\ IF ok
          THEN /\ tokens' = CreateToken(tokens, next_id, user, key, expiry, now)
               /\ next_id' = next_id + 1
               /\ created' = next_id
               /\ token' = key
               /\ UNCHANGED << log, exc >>
          ELSE /\ log' = Append(log, LogEntry("error", "generate_user_token",
                                              user.id, ""))
               /\ exc' = "DatabaseError"
               /\ UNCHANGED << tokens, next_id, created, token >>
       /\ pc' = AfterToken(ok, op)
       /\ result' = IF pc' = "idle"
                    THEN (IF ok THEN "ok" ELSE "raised") ELSE result
  /\ UNCHANGED << now, base_url, outbox, calls, op, user, expiry, template,
                  to_email, uid, url, savepoint, rendered, attempts, accepted,
                  uid_vars >>

\* self.env("BASE_URL") and the f-string around it
BuildUrl ==
  /\ pc = "build_url"
  /\ IF base_url = Unset
     THEN /\ exc' = "ImproperlyConfigured"
          /\ pc' = "except"
          /\ url' = url
     ELSE /\ url' = IF op = "send_activation_email"
                    THEN ActivationUrl(base_url, uid, token)
                    ELSE ResetUrl(base_url, token)
          /\ pc' = "render"
          /\ exc' = exc
  /\ UNCHANGED << tokens, next_id, now, base_url, outbox, log, calls, op,
                  user, expiry, template, to_email, uid, token, result,
                  savepoint, created, rendered, attempts, accepted, uid_vars >>

\* send_email: email_body = render_to_string(template_path, context)
Render ==
  /\ pc = "render"
  /\ \E ok \in BOOLEAN :
       /\ template \notin Templates => ~ok
       /\ rendered' = ok
       /\ IF ok
          THEN UNCHANGED << log, exc >>
          ELSE /\ log' = Append(log, LogEntry("error", "send_email", 0,
                                              to_email))
               /\ exc' = "TemplateDoesNotExist"
       /\ pc' = AfterRender(ok, op)
       /\ result' = IF pc' = "idle" THEN "raised" ELSE result
  /\ UNCHANGED << tokens, next_id, now, base_url, outbox, calls, op, user,
                  expiry, template, to_email, uid, token, url, savepoint,
                  created, attempts, accepted, uid_vars >>

\* send_email: email.send(fail_silently=False) and the log entry after it
Transport ==
  /\ pc = "transport"
  /\ attempts' = attempts + 1
  /\ \E ok \in BOOLEAN :
       /\ IF ok
          THEN /\ outbox' = Append(outbox,
                     EmailMessage(Subject(op),
                                  RenderToString(template, user, url),
                                  to_email))
               /\ accepted' = accepted + 1
               /\ log' = Append(log, LogEntry("info", "send_email", 0,
                                              to_email))
               /\ exc' = exc
          ELSE /\ log' = Append(log, LogEntry("error", "send_email", 0,
                                              to_email))
               /\ exc' = "SMTPException"
               /\ UNCHANGED << outbox, accepted >>
       /\ pc' = AfterTransport(ok, op)
       /\ result' = IF pc' = "idle"
                    THEN (IF ok THEN "ok" ELSE "raised") ELSE result
  /\ UNCHANGED << tokens, next_id, now, base_url, calls, op, user, expiry,
                  template, to_email, uid, token, url, savepoint, created,
                  rendered, uid_vars >>

\* the end of a flow's try block: the url is logged, the flow returns and
\* transaction.atomic commits
FlowReturn ==
  /\ pc = "sent"
  /\ log' = Append(log, LogEntry("info", op, 0, url))
  /\ pc' = "idle"
  /\ result' = "ok"
  /\ UNCHANGED << tokens, next_id, now, base_url, outbox, calls, op, user,
                  expiry, template, to_email, uid, token, url, exc,
                  savepoint, created, rendered, attempts, accepted, uid_vars >>

\* a flow's except clause: the failure is logged and raised again, and
\* transaction.atomic rolls the transaction back
FlowExcept ==
  /\ pc = "except"
  /\ log' = Append(log, FlowErrorEntry(op, user))
  /\ tokens' = Rollback(tokens, savepoint)
  /\ pc' = "idle"
  /\ result' = "raised"
  /\ UNCHANGED << next_id, now, base_url, outbox, calls, op, user, expiry,
                  template, to_email, uid, token, url, exc, savepoint,
                  created, rendered, attempts, accepted, uid_vars >>

\* time passes
Tick ==
  /\ now < MaxTime
  /\ now' = now + 1
  /\ UNCHANGED << tokens, next_id, base_url, outbox, log, calls, frame,
                  uid_vars >>

Next ==
  \/ CallGenerateUserToken
  \/ CallSendEmail
  \/ CallSendActivationEmail
  \/ CallSendPasswordResetEmail
  \/ EncodeUid
  \/ GenerateUserToken
  \/ BuildUrl
  \/ Render
  \/ Transport
  \/ FlowReturn
  \/ FlowExcept
  \/ Tick

Spec == Init /\ [][Next]_vars

(* -------------------- _encode_uid on its own --------------------------- *)
\* two identifiers are drawn; nothing else happens
InitUid ==
  /\ tokens = {} /\ next_id = 1 /\ now = 0
  /\ base_url = Unset
  /\ outbox = << >> /\ log = << >> /\ calls = 0
  /\ IdleFrame
  /\ uid_n \in UidDomain /\ uid_enc = << >>
  /\ uid_m \in UidDomain /\ uid_menc = << >>

\* _encode_uid(uid_n)
EncodeFirst ==
  /\ uid_enc = << >>
  /\ uid_enc' = _encode_uid(uid_n)
  /\ UNCHANGED << tokens, next_id, now, base_url, outbox, log, calls, frame,
                  uid_n, uid_m, uid_menc >>

\* _encode_uid(uid_m)
EncodeSecond ==
  /\ uid_menc = << >>
  /\ uid_menc' = _encode_uid(uid_m)
  /\ UNCHANGED << tokens, next_id, now, base_url, outbox, log, calls, frame,
                  uid_n, uid_m, uid_enc >>

NextUid == EncodeFirst \/ EncodeSecond

SpecUid == InitUid /\ [][NextUid]_vars

(* ============================ properties =============================== *)
Returned(o) == op = o /\ pc = "idle" /\ result \in {"ok", "raised"}
FlowReturned == op \in Flows /\ pc = "idle" /\ result \in {"ok", "raised"}

\* the rows that are committed: inside a flow, those of the savepoint
Committed == IF op \in Flows /\ pc # "idle" THEN savepoint ELSE tokens

\* the row this invocation created, if it is in the table
CreatedRows == { t \in tokens : t.id = created }

LastMessage == outbox[Len(outbox)]
LastLog == log[Len(log)]

\* C1: when a flow has created its Token row and a later step fails, the
\* row is gone once the flow has returned with the failure, and the Token
\* table is what it was when the flow was called.
C1_Atomicity ==
  (FlowReturned /\ result = "raised" /\ created # 0)
    => (tokens = savepoint /\ CreatedRows = {})

C1_Witness ==
  /\ FlowReturned /\ result = "raised" /\ created # 0
  /\ exc = "SMTPException" /\ attempts = 1
  /\ savepoint # {}

\* C2: the row generate_user_token persists expires after the expiry
\* passed, the zero duration included, and after 15 minutes only when no
\* expiry is passed.
C2_ExplicitExpiryWins ==
  \A t \in CreatedRows :
    t.expires_at = t.created_at
                   + (IF expiry.given THEN expiry.secs ELSE token_expiry)

\* C3: send_email calls the mail transport only after the template has
\* been rendered; a rendering failure is raised and nothing is sent.
C3_RenderBeforeSend ==
  /\ attempts > 0 => rendered
  /\ exc = "TemplateDoesNotExist" =>
       /\ ~rendered /\ attempts = 0 /\ accepted = 0
       /\ pc \in {"idle", "except"}
       /\ pc = "idle" => result = "raised"

C3_Witness ==
  /\ Returned("send_email") /\ exc = "TemplateDoesNotExist"
  /\ result = "raised" /\ attempts = 0 /\ template \in Templates

\* C4: no invocation makes more than one transport send; a transport
\* failure is raised after exactly one attempt.
C4_NoRetry ==
  /\ attempts <= 1
  /\ exc = "SMTPException" =>
       /\ attempts = 1 /\ accepted = 0
       /\ pc \in {"idle", "except"}
       /\ pc = "idle" => result = "raised"

C4_Witness ==
  /\ Returned("send_email") /\ exc = "SMTPException"
  /\ result = "raised" /\ attempts = 1

\* C5: a flow in which a step failed logs an error naming the user and
\* raises; a flow returns normally only when it persisted exactly one Token
\* row for the user and the transport accepted exactly one message.
C5_LogThenPropagate ==
  /\ (op \in Flows /\ exc # "none" /\ pc # "idle") => pc = "except"
  /\ (FlowReturned /\ exc # "none") =>
       /\ result = "raised"
       /\ Len(log) > 0
       /\ LastLog.level = "error" /\ LastLog.fn = op
       /\ LastLog.user_id = user.id
  /\ (FlowReturned /\ result = "ok") =>
       /\ exc = "none"
       /\ Cardinality(tokens \ savepoint) = 1
       /\ \A t \in tokens \ savepoint : t.user = user.id /\ t.id = created
       /\ attempts = 1 /\ accepted = 1

C5_Witness ==
  /\ FlowReturned /\ result = "raised" /\ exc = "DatabaseError"
  /\ Len(log) >= 2

\* C6: a successful send_activation_email leaves a Token row of the user
\* with the 15-minute expiry, and the message it sent goes to user.email
\* with the confirmation URL base/api/v1/account/activate/?uid=U&token=T,
\* U decoding to user.pk and T the key of that row.
C6_ActivationEmail ==
  (Returned("send_activation_email") /\ result = "ok") =>
    /\ accepted = 1 /\ Len(outbox) > 0
    /\ \E t \in CreatedRows :
         /\ t.user = user.id
         /\ t.expires_at = t.created_at + token_expiry
         /\ LastMessage.to = << user.email >>
         /\ LastMessage.body.url =
              base_url \o "/api/v1/account/activate/?uid=" \o Join(uid)
                       \o "&token=" \o t.key
         /\ decode_uid(uid) = user.id
         /\ (user.id = 42 /\ base_url = "https://app.test") =>
              LastMessage.body.url =
                "https://app.test/api/v1/account/activate/?uid=NDI=&token="
                  \o t.key

C6_Witness ==
  /\ Returned("send_activation_email") /\ result = "ok" /\ user.id = 42
  /\ \E t \in tokens : t.user = user.id /\ t.id # created /\ t.key # token

\* C7: a successful send_password_reset_email leaves a Token row of the
\* user expiring 3600 seconds after issuance, and the message it sent goes
\* to user.email with the reset URL base/api/v1/account/reset_password/
\* ?token=T, T the key of that row, and nothing else in the query.
C7_PasswordResetEmail ==
  (Returned("send_password_reset_email") /\ result = "ok") =>
    /\ accepted = 1 /\ Len(outbox) > 0
    /\ \E t \in CreatedRows :
         /\ t.user = user.id
         /\ t.expires_at = t.created_at + 3600
         /\ LastMessage.to = << user.email >>
         /\ LastMessage.body.url =
              base_url \o "/api/v1/account/reset_password/?token=" \o t.key
         /\ base_url = "https://app.test" =>
              LastMessage.body.url =
                "https://app.test/api/v1/account/reset_password/?token="
                  \o t.key

C7_Witness ==
  /\ Returned("send_password_reset_email") /\ result = "ok" /\ user.id = 7
  /\ now > 0
  /\ \E t \in tokens : t.user = user.id /\ t.id # created /\ t.key # token

\* C8: no step removes or changes a committed Token row.
C8_NoInvalidation == [][Committed \subseteq Committed']_vars

C8_Witness ==
  /\ pc = "idle"
  /\ \E t1 \in tokens, t2 \in tokens :
       /\ t1.id # t2.id /\ t1.user = t2.user
       /\ now < t1.expires_at /\ now < t2.expires_at

\* C9: decoding _encode_uid(n) gives n back, equal identifiers get equal
\* encodings and distinct identifiers get distinct encodings.
C9_EncodeUidReversible ==
  /\ uid_enc # << >> => decode_uid(uid_enc) = uid_n
  /\ uid_menc # << >> => decode_uid(uid_menc) = uid_m
  /\ (uid_enc # << >> /\ uid_menc # << >>) =>
       (uid_n = uid_m <=> uid_enc = uid_menc)

C9_Witness ==
  /\ uid_enc # << >> /\ uid_menc # << >>
  /\ uid_n >= 1000 /\ uid_m # uid_n /\ Len(uid_enc) = Len(uid_menc)

\* C10: in a flow the template is rendered and the transport is called
\* only when the Token row of this invocation is in the table; when the
\* row could not be written nothing is rendered and nothing is sent.
C10_TokenBeforeEmail ==
  op \in Flows =>
    /\ (rendered \/ attempts > 0 \/ pc \in {"render", "transport", "sent"}) =>
         /\ created # 0
         /\ pc # "idle" =>
              \E t \in CreatedRows : t.key = token /\ t.user = user.id
    /\ exc = "DatabaseError" =>
         ~rendered /\ attempts = 0 /\ accepted = 0 /\ created = 0

C10_Witness ==
  /\ FlowReturned /\ result = "raised" /\ exc = "DatabaseError"
  /\ ~rendered /\ attempts = 0 /\ tokens # {}

====
